---- MODULE Spec2Model ----
(***************************************************************************)
(* Model of api/replication.go of couchdb-utils: the replication           *)
(* directives kept in a CouchDB host's _replicator database, and the       *)
(* operations GetReplicators, ReplicateHost, DeleteReplicator and          *)
(* DeleteAllReplicators that list, upsert and delete them.                 *)
(*                                                                         *)
(* Strings whose characters matter (database names, locators, document     *)
(* ids) are sequences of one-character strings.  A revision is a natural   *)
(* number, 0 standing for the empty REV string.  Every HTTP call is one    *)
(* step, so the replication engine and other writers of the store          *)
(* interleave with a running operation between its calls.                  *)
(***************************************************************************)
EXTENDS Integers, Sequences, FiniteSets, TLC

VARIABLES
    store,          \* local host's _replicator database: id -> document
    pc,             \* position of the client in the running operation
    op,             \* the operation that is running (or has just returned)
    conf,           \* ReplicateHost's conf parameter, reused by every iteration
    databases,      \* ReplicateHost: the listing returned by GetDatabases
    replicators,    \* the registry returned by GetReplicators
    session,        \* ReplicateHost: the session returned by GetSession
    idx,            \* ReplicateHost: position of the range loop in databases
    replicatedDbs,  \* ReplicateHost: databases submitted successfully so far
    retDbs,         \* ReplicateHost's returned *Databases
    retReg,         \* GetReplicators' / DeleteAllReplicators' returned *Replicators
    err,            \* the returned error ("" is nil)
    delQueue,       \* DeleteAllReplicators: replicators the range loops still visit
    drId,           \* DeleteReplicator's id parameter
    fetched,        \* DeleteReplicator: the replicator returned by GetReplicator
    reqLog,         \* history: the HTTP requests of the running operation
    envCur,         \* history: kinds of external writes since the operation started
    prevRun,        \* history: summary of the previous operation
    opCount,        \* number of operations started
    envCount,       \* number of external writes
    altConf         \* identifier specification: conf with Source and Target swapped

vars == <<store, pc, op, conf, databases, replicators, session, idx, replicatedDbs,
          retDbs, retReg, err, delQueue, drId, fetched, reqLog, envCur, prevRun,
          opCount, envCount, altConf>>

rhVars == <<conf, databases, session, idx, replicatedDbs, retDbs>>
delVars == <<delQueue, drId, fetched>>
histVars == <<envCur, prevRun, opCount, envCount>>

----------------------------------------------------------------------------
(* Bounds *)

MaxRev == 3     \* highest revision number a document reaches
MaxOps == 2     \* operations the client starts in one behaviour
MaxEnv == 2     \* external writes in one behaviour
MaxLen == 2     \* longest source / target string of the identifier specification

----------------------------------------------------------------------------
(* Strings *)

NoRev == 0                  \* the empty REV string
EmptyStr == <<>>
ignoredPrefix == "_"
invalidPrefix == "_"
Alphabet == {"a", "b"}

RECURSIVE StringsUpTo(_)
StringsUpTo(n) ==
    IF n = 0 THEN {EmptyStr}
    ELSE LET shorter == StringsUpTo(n - 1)
         IN shorter \cup {Append(w, c) : w \in {x \in shorter : Len(x) = n - 1}, c \in Alphabet}

Strings == StringsUpTo(MaxLen)

RECURSIVE Power(_, _)
Power(w, n) == IF n = 0 THEN EmptyStr ELSE w \o Power(w, n - 1)

\* s and t are both repetitions of one word (either may be empty)
CommonPower(s, t) ==
    \E w \in Strings : \E i \in 0..Len(s), j \in 0..Len(t) :
        s = Power(w, i) /\ t = Power(w, j)

Range(q) == {q[i] : i \in 1..Len(q)}

----------------------------------------------------------------------------
(* The two hosts *)

\* database listings of the local and of the remote host, in listing order
LocalDbs == << <<"_", "u">>, <<"a">>, <<"b">>, <<"c">> >>
RemoteDbs == << <<"b">>, <<"_", "r">> >>

\* remoteCouch.url(dbName): the remote host's base URL followed by the name
RemoteBase == <<"r", ":", "/">>
url(dbName) == RemoteBase \o dbName

LocalUserCtx == "local_ctx"
GetSessionResult == [UserCtx |-> LocalUserCtx]
NoSession == [UserCtx |-> ""]

GetDatabases(host) == IF host = "local" THEN LocalDbs ELSE RemoteDbs

----------------------------------------------------------------------------
(* ReplicationConfig *)

NoConf == [ID |-> EmptyStr, REV |-> NoRev, Source |-> EmptyStr, Target |-> EmptyStr,
           UserCtx |-> "", Push |-> FALSE]

hasId(r) == r.ID # EmptyStr

\* faulty variant: the two locators joined in an order that does not depend on which is the source
uniqueNameUnordered(r) ==
    IF Len(r.Source) <= Len(r.Target) THEN r.Source \o r.Target ELSE r.Target \o r.Source

uniqueName(r) == r.Source \o r.Target

\* md5 followed by %x: an injective stand-in (no collisions) whose digest
\* starts with a hexadecimal digit, never with the reserved prefix
HexDigest(bytes) == <<"h">> \o bytes

GenerateId(r) == [r EXCEPT !.ID = HexDigest(uniqueName(r))]

\* the address of a document: its id, and its revision when REV is not empty
path(r) == [id |-> r.ID, rev |-> r.REV]

----------------------------------------------------------------------------
(* Replicator and Replicators *)

RepKeys == {"", "r1"}

NoReplicator == [ID |-> EmptyStr, REV |-> NoRev, ReplicationId |-> "", ReplicationState |-> ""]

\* make(Replicators): no key holds any replicator
EmptyReplicators == [k \in RepKeys |-> <<>>]

\* the replicators a scan over the groups can return first: Go ranges over a
\* map in an unspecified order and over each group from its front
findById(r, id) ==
    LET hits == {k \in DOMAIN r : \E i \in 1..Len(r[k]) : r[k][i].ID = id}
        first(k) == r[k][CHOOSE i \in 1..Len(r[k]) :
                             /\ r[k][i].ID = id
                             /\ \A j \in 1..(i - 1) : r[k][j].ID # id]
    IN IF hits = {} THEN {[replicator |-> NoReplicator, found |-> FALSE]}
       ELSE {[replicator |-> first(k), found |-> TRUE] : k \in hits}

\* faulty variant: a replicator replaces the group of its key
addOverwrite(r, replicator) ==
    [r EXCEPT ![replicator.ReplicationId] = <<replicator>>]

add(r, replicator) ==
    [r EXCEPT ![replicator.ReplicationId] = Append(@, replicator)]

RECURSIVE AddRows(_, _)
AddRows(rows, acc) ==
    IF rows = <<>> THEN acc ELSE AddRows(Tail(rows), add(acc, Head(rows).Replicator))

\* faulty variant: every row of the listing is registered
ReplicatorsUnfiltered(rows) == AddRows(rows, EmptyReplicators)

RECURSIVE ReplicatorsFrom(_, _)
ReplicatorsFrom(rows, acc) ==
    IF rows = <<>> THEN acc
    ELSE LET row == Head(rows)
         IN IF Len(row.Id) > 0 /\ row.Id[1] = ignoredPrefix
            THEN ReplicatorsFrom(Tail(rows), acc)
            ELSE ReplicatorsFrom(Tail(rows), add(acc, row.Replicator))

Replicators(rows) == ReplicatorsFrom(rows, EmptyReplicators)

\* every replicator of a registry
AllOf(r) == UNION {Range(r[k]) : k \in DOMAIN r}
IdsOf(r) == {x.ID : x \in AllOf(r)}

----------------------------------------------------------------------------
(* The directive store of the local host *)

PushId(dbName) == HexDigest(dbName \o url(dbName))
PullId(dbName) == HexDigest(url(dbName) \o dbName)

DesignDocId == <<"_", "d">>
ExternalId == <<"x">>

\* every id the store can hold, in the order _all_docs lists them
IdOrder ==
    <<DesignDocId>>
    \o [i \in 1..Len(LocalDbs) |-> PushId(LocalDbs[i])]
    \o [i \in 1..Len(RemoteDbs) |-> PullId(RemoteDbs[i])]
    \o <<ExternalId>>

IdUniverse == Range(IdOrder)

\* a document: rev = NoRev when the id holds no document
NoDoc == [rev |-> NoRev, state |-> "", repId |-> ""]
Present(st, id) == st[id].rev # NoRev

AsReplicator(st, id) ==
    [ID |-> id, REV |-> st[id].rev, ReplicationId |-> st[id].repId,
     ReplicationState |-> st[id].state]

\* GET _replicator/_all_docs?include_docs=true: one row per document
RECURSIVE AllDocsFrom(_, _)
AllDocsFrom(st, i) ==
    IF i > Len(IdOrder) THEN <<>>
    ELSE IF Present(st, IdOrder[i])
         THEN <<[Id |-> IdOrder[i], Replicator |-> AsReplicator(st, IdOrder[i])]>>
              \o AllDocsFrom(st, i + 1)
         ELSE AllDocsFrom(st, i + 1)

AllDocs(st) == AllDocsFrom(st, 1)

\* PUT _replicator/{id}[?rev=]: accepted when the revision carried is the one
\* held (none for a new id); the body replaces the document, so the fields
\* the engine had set are gone.  Any call can fail in transport.
PutOutcomes(st, p) ==
    LET held == st[p.id].rev
    IN {[err |-> "transport", store |-> st]}
       \cup (IF p.id \in IdUniverse /\ p.rev = held
             THEN IF held < MaxRev
                  THEN {[err |-> "",
                         store |-> [st EXCEPT ![p.id] = [rev |-> held + 1, state |-> "",
                                                         repId |-> ""]]]}
                  ELSE {}
             ELSE {[err |-> "conflict", store |-> st]})

\* GET _replicator/{id}
GetOutcomes(st, p) ==
    {[err |-> "transport", replicator |-> NoReplicator]}
    \cup (IF Present(st, p.id)
          THEN {[err |-> "", replicator |-> AsReplicator(st, p.id)]}
          ELSE {[err |-> "not_found", replicator |-> NoReplicator]})

\* DELETE _replicator/{id}?rev=
DelOutcomes(st, p) ==
    {[err |-> "transport", store |-> st]}
    \cup (IF Present(st, p.id) /\ p.rev = st[p.id].rev
          THEN {[err |-> "", store |-> [st EXCEPT ![p.id] = NoDoc]]}
          ELSE {[err |-> "conflict", store |-> st]})

----------------------------------------------------------------------------
(* History of requests *)

Req(method, host, p, body, e, after) ==
    [method |-> method, host |-> host, id |-> p.id, rev |-> p.rev, body |-> body,
     err |-> e, revAfter |-> after]

NoPath == [id |-> EmptyStr, rev |-> NoRev]
Puts(log) == SelectSeq(log, LAMBDA e : e.method = "PUT")
Last(q) == q[Len(q)]

----------------------------------------------------------------------------
(* Initial state: the _replicator database holds its design document only *)

\* what is kept of a ReplicateHost run for the run that follows it
NoRun == [op |-> "none", push |-> FALSE, err |-> "", dom |-> {}]

InitStore ==
    [id \in IdUniverse |->
        IF id = DesignDocId THEN [rev |-> 1, state |-> "", repId |-> ""] ELSE NoDoc]

Init ==
    /\ store = InitStore
    /\ pc = "idle"
    /\ op = "none"
    /\ conf = NoConf
    /\ databases = <<>>
    /\ replicators = EmptyReplicators
    /\ session = NoSession
    /\ idx = 1
    /\ replicatedDbs = <<>>
    /\ retDbs = <<>>
    /\ retReg = [isNil |-> TRUE, reg |-> EmptyReplicators]
    /\ err = ""
    /\ delQueue = <<>>
    /\ drId = EmptyStr
    /\ fetched = NoReplicator
    /\ reqLog = <<>>
    /\ envCur = {}
    /\ prevRun = NoRun
    /\ opCount = 0
    /\ envCount = 0
    /\ altConf = NoConf

\* the caller takes the result of the operation that returned, if any, and
\* starts operation name with fresh locals
Begin(name, at, c, id) ==
    /\ pc \in {"idle", "done"}
    /\ opCount < MaxOps
    /\ opCount' = opCount + 1
    /\ prevRun' = IF pc = "done" /\ op = "ReplicateHost"
                  THEN [op |-> op, push |-> conf.Push, err |-> err,
                        dom |-> {i \in IdUniverse : Present(store, i)}]
                  ELSE NoRun
    /\ op' = name
    /\ pc' = at
    /\ conf' = c
    /\ drId' = id
    /\ databases' = <<>>
    /\ replicators' = EmptyReplicators
    /\ session' = NoSession
    /\ idx' = 1
    /\ replicatedDbs' = <<>>
    /\ retDbs' = <<>>
    /\ retReg' = [isNil |-> TRUE, reg |-> EmptyReplicators]
    /\ err' = ""
    /\ delQueue' = <<>>
    /\ fetched' = NoReplicator
    /\ reqLog' = <<>>
    /\ envCur' = {}
    /\ UNCHANGED <<store, envCount, altConf>>

----------------------------------------------------------------------------
(* ReplicateHost *)

toJson(r) == [ID |-> r.ID, REV |-> r.REV, Source |-> r.Source, Target |-> r.Target,
              UserCtx |-> r.UserCtx]
NoBody == toJson(NoConf)

\* Replicate: the body is marshalled, an id is generated when there is none,
\* and the body is PUT at the path of the conf
Replicate(c) ==
    LET withId == IF hasId(c) THEN c ELSE GenerateId(c)
    IN [p |-> path(withId), body |-> toJson(c)]

\* faulty variant: the user context of the conf passed in is kept
DirectiveOwnCtx(c, dbName, ses) ==
    GenerateId([c EXCEPT !.Source = IF c.Push THEN dbName ELSE url(dbName),
                         !.Target = IF c.Push THEN url(dbName) ELSE dbName])

\* faulty variant: source and target are set as for a push in both directions
DirectiveAlwaysPush(c, dbName, ses) ==
    GenerateId([c EXCEPT !.Source = dbName, !.Target = url(dbName),
                         !.UserCtx = ses.UserCtx])

\* the directive of one database: source and target by direction, the
\* session's user context, and the generated id
Directive(c, dbName, ses) ==
    GenerateId([c EXCEPT !.Source = IF c.Push THEN dbName ELSE url(dbName),
                         !.Target = IF c.Push THEN url(dbName) ELSE dbName,
                         !.UserCtx = ses.UserCtx])

\* faulty variant: a triggered replicator is updated like any other
DecideNoSkip(c, res) ==
    [skip |-> FALSE,
     conf |-> [c EXCEPT !.REV = IF res.found THEN res.replicator.REV ELSE NoRev]]

\* faulty variant: REV is not cleared when no replicator is found
DecideNoReset(c, res) ==
    IF res.found
    THEN IF res.replicator.ReplicationState = "triggered"
         THEN [skip |-> TRUE, conf |-> c]
         ELSE [skip |-> FALSE, conf |-> [c EXCEPT !.REV = res.replicator.REV]]
    ELSE [skip |-> FALSE, conf |-> c]

\* faulty variant: whatever is found is skipped, triggered or not
DecideSkipFound(c, res) ==
    IF res.found THEN [skip |-> TRUE, conf |-> c]
    ELSE [skip |-> FALSE, conf |-> [c EXCEPT !.REV = NoRev]]

\* what the lookup decides: skip a triggered replicator, carry the revision
\* of any other replicator found, and no revision when none is found
Decide(c, res) ==
    IF res.found
    THEN IF res.replicator.ReplicationState = "triggered"
         THEN [skip |-> TRUE, conf |-> c]
         ELSE [skip |-> FALSE, conf |-> [c EXCEPT !.REV = res.replicator.REV]]
    ELSE [skip |-> FALSE, conf |-> [c EXCEPT !.REV = NoRev]]

\* faulty variant: the loop goes on after a failed submission
StopOnNever(e) == FALSE

\* err != nil after Replicate
StopOn(e) == e # ""

\* faulty variant: the database is appended before the error is looked at
ProcessedAlways(dbs, db, e) == Append(dbs, db)

\* replicatedDbs after Replicate returned e for db
Processed(dbs, db, e) == IF e # "" THEN dbs ELSE Append(dbs, db)

\* faulty variant: the reserved prefix is not looked at
IsReservedNever(dbName) == FALSE

\* dbName[0] == invalidPrefix (a database name is never empty)
IsReserved(dbName) == dbName[1] = invalidPrefix

StartReplicateHost ==
    \E push \in BOOLEAN, rev \in {NoRev, 1} :
        Begin("ReplicateHost", "rh_dbs",
              [NoConf EXCEPT !.Push = push, !.REV = rev, !.UserCtx = "template_ctx"],
              EmptyStr)

\* faulty variant: a failed call is made again
RH_FailRetry(e, log) ==
    /\ reqLog' = log
    /\ UNCHANGED <<store, pc, op, conf, databases, replicators, session, idx, replicatedDbs,
                   retDbs, retReg, err, delVars, histVars, altConf>>

\* return &replicatedDbs, err after a failed call before the loop
RH_Fail(e, log) ==
    /\ pc' = "done"
    /\ err' = e
    /\ retDbs' = replicatedDbs
    /\ reqLog' = log
    /\ UNCHANGED <<store, op, conf, databases, replicators, session, idx, replicatedDbs,
                   retReg, delVars, histVars, altConf>>

\* faulty variant: the local host lists the databases in both directions
masterCouchLocal(c) == "local"

\* the host whose databases are replicated: the local one when pushing
masterCouch(c) == IF c.Push THEN "local" ELSE "remote"

RH_GetDatabases ==
    /\ pc = "rh_dbs"
    /\ LET master == masterCouch(conf)
       IN \/ /\ databases' = GetDatabases(master)
             /\ pc' = "rh_reg"
             /\ reqLog' = Append(reqLog, Req("LIST_DBS", master, NoPath, NoBody, "", NoRev))
             /\ UNCHANGED <<store, op, conf, replicators, session, idx, replicatedDbs,
                            retDbs, retReg, err, delVars, histVars, altConf>>
          \/ RH_Fail("transport",
                     Append(reqLog, Req("LIST_DBS", master, NoPath, NoBody, "transport", NoRev)))

RH_GetReplicators ==
    /\ pc = "rh_reg"
    /\ \/ /\ replicators' = Replicators(AllDocs(store))
          /\ pc' = "rh_ses"
          /\ reqLog' = Append(reqLog, Req("LIST_DOCS", "local", NoPath, NoBody, "", NoRev))
          /\ UNCHANGED <<store, op, rhVars, retReg, err, delVars, histVars, altConf>>
       \/ RH_Fail("transport",
                  Append(reqLog, Req("LIST_DOCS", "local", NoPath, NoBody, "transport", NoRev)))

\* the range loop is left when no database remains: return &replicatedDbs, nil
RH_Next(c, dbs, st, log, e) ==
    /\ conf' = c
    /\ store' = st
    /\ reqLog' = log
    /\ replicatedDbs' = dbs
    /\ IF StopOn(e)
       THEN /\ pc' = "done"
            /\ err' = e
            /\ retDbs' = dbs
            /\ idx' = idx
       ELSE IF idx >= Len(databases)
            THEN /\ pc' = "done"
                 /\ err' = ""
                 /\ retDbs' = dbs
                 /\ idx' = idx + 1
            ELSE /\ pc' = "rh_loop"
                 /\ idx' = idx + 1
                 /\ UNCHANGED <<err, retDbs>>
    /\ UNCHANGED <<op, databases, replicators, session, retReg, delVars, histVars, altConf>>

RH_GetSession ==
    /\ pc = "rh_ses"
    /\ \/ /\ session' = GetSessionResult
          /\ reqLog' = Append(reqLog, Req("GET_SESSION", "local", NoPath, NoBody, "", NoRev))
          /\ IF Len(databases) = 0
             THEN pc' = "done" /\ err' = "" /\ retDbs' = replicatedDbs
             ELSE pc' = "rh_loop" /\ UNCHANGED <<err, retDbs>>
          /\ UNCHANGED <<store, op, conf, databases, replicators, idx, replicatedDbs,
                         retReg, delVars, histVars, altConf>>
       \/ RH_Fail("transport",
                  Append(reqLog, Req("GET_SESSION", "local", NoPath, NoBody, "transport", NoRev)))

\* one iteration of the range loop over databases
RH_Iter ==
    /\ pc = "rh_loop"
    /\ idx <= Len(databases)
    /\ LET db == databases[idx]
       IN IF IsReserved(db)
          THEN RH_Next(conf, replicatedDbs, store, reqLog, "")
          ELSE LET c == Directive(conf, db, session)
               IN \E res \in findById(replicators, c.ID) :
                     LET d == Decide(c, res)
                         rq == Replicate(d.conf)
                     IN IF d.skip
                        THEN RH_Next(d.conf, replicatedDbs, store, reqLog, "")
                        ELSE \E out \in PutOutcomes(store, rq.p) :
                                RH_Next(d.conf,
                                        Processed(replicatedDbs, db, out.err),
                                        out.store,
                                        Append(reqLog,
                                               Req("PUT", "local", rq.p, rq.body, out.err,
                                                   out.store[rq.p.id].rev)),
                                        out.err)

----------------------------------------------------------------------------
(* GetReplicators, called on its own *)

StartGetReplicators ==
    Begin("GetReplicators", "gr_reg", NoConf, EmptyStr)

GetReplicatorsCall ==
    /\ pc = "gr_reg"
    /\ pc' = "done"
    /\ \/ /\ retReg' = [isNil |-> FALSE, reg |-> Replicators(AllDocs(store))]
          /\ err' = ""
          /\ reqLog' = Append(reqLog, Req("LIST_DOCS", "local", NoPath, NoBody, "", NoRev))
       \/ /\ retReg' = [isNil |-> TRUE, reg |-> EmptyReplicators]
          /\ err' = "transport"
          /\ reqLog' = Append(reqLog,
                              Req("LIST_DOCS", "local", NoPath, NoBody, "transport", NoRev))
    /\ UNCHANGED <<store, op, replicators, rhVars, delVars, histVars, altConf>>

----------------------------------------------------------------------------
(* DeleteReplicator and DeleteAllReplicators *)

Perms(S) == {f \in [1..Cardinality(S) -> S] : \A i, j \in DOMAIN f : f[i] = f[j] => i = j}

RECURSIVE Flatten(_, _)
Flatten(r, order) ==
    IF Len(order) = 0 THEN <<>> ELSE r[order[1]] \o Flatten(r, Tail(order))

\* the orders in which the two range loops can visit a registry: the groups
\* in any order, each group from its front
IterOrders(r) == {Flatten(r, f) : f \in Perms({k \in DOMAIN r : r[k] # <<>>})}

\* GetReplicator: the id is set, then the document is read at its path
GetReplicator(id) == path([NoReplicator EXCEPT !.ID = id])

\* faulty variant: only the replicators already deleted are returned
DeleteAllResultDeleted(r, remaining) ==
    [k \in DOMAIN r |-> SelectSeq(r[k], LAMBDA x : x \notin Range(remaining))]

\* what DeleteAllReplicators returns with or without an error: the registry
\* as loaded, whatever remains to be visited
DeleteAllResult(r, remaining) == r

\* faulty variant: the loops go on after a failed deletion, whose error is lost
DeleteFailedNever(e) == FALSE

\* err != nil after DeleteReplicator
DeleteFailed(e) == e # ""

StartDeleteReplicator ==
    \E id \in {ExternalId, PushId(<<"a">>)} :
        Begin("DeleteReplicator", "dr_fetch", NoConf, id)

StartDeleteAllReplicators ==
    Begin("DeleteAllReplicators", "da_reg", NoConf, EmptyStr)

DA_GetReplicators ==
    /\ pc = "da_reg"
    /\ \/ /\ replicators' = Replicators(AllDocs(store))
          /\ reqLog' = Append(reqLog, Req("LIST_DOCS", "local", NoPath, NoBody, "", NoRev))
          /\ \E q \in IterOrders(replicators') :
                /\ delQueue' = q
                /\ IF Len(q) = 0
                   THEN /\ pc' = "done"
                        /\ retReg' = [isNil |-> FALSE,
                                      reg |-> DeleteAllResult(replicators', q)]
                        /\ err' = ""
                        /\ UNCHANGED drId
                   ELSE /\ pc' = "dr_fetch"
                        /\ drId' = q[1].ID
                        /\ UNCHANGED <<retReg, err>>
          /\ UNCHANGED <<store, op, rhVars, fetched, histVars, altConf>>
       \/ /\ pc' = "done"
          /\ retReg' = [isNil |-> TRUE, reg |-> EmptyReplicators]
          /\ err' = "transport"
          /\ reqLog' = Append(reqLog,
                              Req("LIST_DOCS", "local", NoPath, NoBody, "transport", NoRev))
          /\ UNCHANGED <<store, op, replicators, rhVars, delVars, histVars, altConf>>

\* DeleteReplicator returns e to its caller
DR_Return(e, st, log, f) ==
    /\ store' = st
    /\ reqLog' = log
    /\ fetched' = f
    /\ IF op = "DeleteAllReplicators"
       THEN IF DeleteFailed(e)
            THEN /\ pc' = "done"
                 /\ err' = e
                 /\ retReg' = [isNil |-> FALSE, reg |-> DeleteAllResult(replicators, delQueue)]
                 /\ UNCHANGED <<delQueue, drId>>
            ELSE /\ delQueue' = Tail(delQueue)
                 /\ IF Len(delQueue) = 1
                    THEN /\ pc' = "done"
                         /\ err' = ""
                         /\ retReg' = [isNil |-> FALSE,
                                       reg |-> DeleteAllResult(replicators, delQueue')]
                         /\ UNCHANGED drId
                    ELSE /\ pc' = "dr_fetch"
                         /\ drId' = delQueue[2].ID
                         /\ UNCHANGED <<err, retReg>>
       ELSE /\ pc' = "done"
            /\ err' = e
            /\ UNCHANGED <<retReg, delQueue, drId>>
    /\ UNCHANGED <<op, replicators, rhVars, histVars, altConf>>

\* DeleteReplicator: c.GetReplicator(id)
DR_Fetch ==
    /\ pc = "dr_fetch"
    /\ LET p == GetReplicator(drId)
       IN \E out \in GetOutcomes(store, p) :
             LET log == Append(reqLog, Req("GET", "local", p, NoBody, out.err,
                                           out.replicator.REV))
             IN IF out.err # ""
                THEN DR_Return(out.err, store, log, out.replicator)
                ELSE /\ pc' = "dr_del"
                     /\ fetched' = out.replicator
                     /\ reqLog' = log
                     /\ UNCHANGED <<store, op, replicators, rhVars, retReg, err, delQueue,
                                    drId, histVars, altConf>>

\* faulty variant: the delete is addressed with the revision the registry
\* holds for the id, when it holds one
DeletePathOfSnapshot(f) ==
    LET known == {x \in AllOf(replicators) : x.ID = f.ID}
    IN IF known = {} THEN path(f) ELSE path(CHOOSE x \in known : TRUE)

\* replicator.path() of the replicator GetReplicator returned
DeletePath(f) == path(f)

\* DeleteReplicator: c.del(replicator.path())
DR_Del ==
    /\ pc = "dr_del"
    /\ LET p == DeletePath(fetched)
       IN \E out \in DelOutcomes(store, p) :
             DR_Return(out.err, out.store,
                       Append(reqLog, Req("DELETE", "local", p, NoBody, out.err, NoRev)),
                       fetched)

----------------------------------------------------------------------------
(* Other writers of the store: the replication engine and other clients *)

Managed(id) == id # DesignDocId

EnvWrite(kind, id, doc) ==
    /\ envCount < MaxEnv
    /\ envCount' = envCount + 1
    /\ envCur' = envCur \cup {kind}
    /\ store' = [store EXCEPT ![id] = doc]
    /\ UNCHANGED <<pc, op, conf, databases, replicators, session, idx, replicatedDbs,
                   retDbs, retReg, err, delQueue, drId, fetched, reqLog, prevRun,
                   opCount, altConf>>

\* the engine starts a replication: the document becomes triggered
EngineTrigger ==
    \E id \in IdUniverse :
        /\ Managed(id)
        /\ Present(store, id)
        /\ store[id].state # "triggered"
        /\ store[id].rev < MaxRev
        /\ EnvWrite("trigger", id,
                    [rev |-> store[id].rev + 1, state |-> "triggered", repId |-> "r1"])

\* the engine ends a replication
EngineFinish ==
    \E id \in IdUniverse, s \in {"completed", "error"} :
        /\ store[id].state = "triggered"
        /\ store[id].rev < MaxRev
        /\ EnvWrite("write", id, [store[id] EXCEPT !.rev = @ + 1, !.state = s])

\* another client creates a directive
ExternalCreate ==
    \E id \in {ExternalId, PushId(LocalDbs[2]), PullId(RemoteDbs[1])} :
        /\ ~Present(store, id)
        /\ EnvWrite("write", id, [rev |-> 1, state |-> "", repId |-> ""])

----------------------------------------------------------------------------

Next ==
    \/ StartReplicateHost
    \/ RH_GetDatabases
    \/ RH_GetReplicators
    \/ RH_GetSession
    \/ RH_Iter
    \/ StartGetReplicators
    \/ GetReplicatorsCall
    \/ StartDeleteReplicator
    \/ StartDeleteAllReplicators
    \/ DA_GetReplicators
    \/ DR_Fetch
    \/ DR_Del
    \/ EngineTrigger
    \/ EngineFinish
    \/ ExternalCreate

Spec == Init /\ [][Next]_vars

----------------------------------------------------------------------------
(* The identifier on its own: every pair of short strings, and every       *)
(* database name with its remote locator, as source and target             *)

IdPairs ==
    {[NoConf EXCEPT !.Source = s, !.Target = t] : s, t \in Strings}
    \cup {[NoConf EXCEPT !.Source = d, !.Target = url(d)] : d \in Strings \ {EmptyStr}}

InitId ==
    /\ store = InitStore
    /\ pc = "idle"
    /\ op = "none"
    /\ conf \in IdPairs
    /\ databases = <<>>
    /\ replicators = EmptyReplicators
    /\ session = NoSession
    /\ idx = 1
    /\ replicatedDbs = <<>>
    /\ retDbs = <<>>
    /\ retReg = [isNil |-> TRUE, reg |-> EmptyReplicators]
    /\ err = ""
    /\ delQueue = <<>>
    /\ drId = EmptyStr
    /\ fetched = NoReplicator
    /\ reqLog = <<>>
    /\ envCur = {}
    /\ prevRun = NoRun
    /\ opCount = 0
    /\ envCount = 0
    /\ altConf = NoConf

\* conf.GenerateId()
IdGenerate ==
    /\ ~hasId(conf)
    /\ conf' = GenerateId(conf)
    /\ UNCHANGED <<store, pc, op, databases, replicators, session, idx, replicatedDbs,
                   retDbs, retReg, err, delVars, reqLog, histVars, altConf>>

\* GenerateId() on the same two strings as target and source
IdGenerateSwapped ==
    /\ hasId(conf)
    /\ ~hasId(altConf)
    /\ altConf' = GenerateId([NoConf EXCEPT !.Source = conf.Target, !.Target = conf.Source])
    /\ UNCHANGED <<store, pc, op, conf, databases, replicators, session, idx,
                   replicatedDbs, retDbs, retReg, err, delVars, reqLog, histVars>>

NextId == IdGenerate \/ IdGenerateSwapped

SpecId == InitId /\ [][NextId]_vars

----------------------------------------------------------------------------
(* Properties *)

IsRH == op = "ReplicateHost"
IsDA == op = "DeleteAllReplicators"

Registered(id) == {x \in AllOf(replicators) : x.ID = id}
RegisteredTriggered(id) == \E x \in Registered(id) : x.ReplicationState = "triggered"

\* a step of the client, as opposed to a step of another writer
ClientStep == reqLog' # reqLog \/ pc' # pc \/ idx' # idx

\* the database a submitted body is about
DbOf(e) == IF conf.Push THEN e.body.Source ELSE e.body.Target

\* the id ReplicateHost computes for a database in the direction of this run
RunId(db) == IF conf.Push THEN PushId(db) ELSE PullId(db)
RunIds == {RunId(databases[i]) : i \in {j \in 1..Len(databases) : databases[j][1] # "_"}}

Failures(log) == {i \in 1..Len(log) : log[i].err # ""}
DeletedIds == {e.id : e \in {x \in Range(reqLog) : x.method = "DELETE" /\ x.err = ""}}

\* C1: while the registry of a ReplicateHost run holds a directive as
\* triggered, no step of the run changes the document the store holds for
\* its id (its revision included) and no PUT for its id is ever issued.
C1_TriggeredNeverResubmitted ==
    [][\A id \in IdUniverse :
          (IsRH /\ pc = "rh_loop" /\ RegisteredTriggered(id) /\ ClientStep)
              => /\ store'[id] = store[id]
                 /\ \A e \in Range(reqLog') : e.method = "PUT" => e.id # id]_vars

\* a second ReplicateHost run has returned having skipped a directive that
\* is still triggered
C1_Witness ==
    /\ IsRH /\ pc = "done" /\ err = ""
    /\ prevRun.op = "ReplicateHost"
    /\ RegisteredTriggered(conf.ID)
    /\ store[conf.ID].state = "triggered"

\* C2: in a ReplicateHost run a failed submission is the last request of the
\* run: the run has returned that submission's error, and the returned list
\* is the databases of the successful submissions before it, in listing order.
C2_FailFastPartialResult ==
    IsRH =>
        \A k \in 1..Len(reqLog) :
            (reqLog[k].method = "PUT" /\ reqLog[k].err # "")
                => /\ k = Len(reqLog)
                   /\ pc = "done"
                   /\ err = reqLog[k].err
                   /\ LET ok == SelectSeq(reqLog, LAMBDA e : e.method = "PUT" /\ e.err = "")
                      IN /\ retDbs = [i \in 1..Len(ok) |-> DbOf(ok[i])]
                         /\ Len(ok) = Len(Puts(reqLog)) - 1
                         /\ \E f \in [1..Len(ok) -> 1..Len(databases)] :
                               /\ \A i \in 1..Len(ok) : databases[f[i]] = retDbs[i]
                               /\ \A i, j \in 1..Len(ok) : i < j => f[i] < f[j]
                               /\ \A i \in 1..Len(ok) : f[i] < idx

\* the submission for a later database failed after an earlier one succeeded
C2_Witness ==
    /\ IsRH /\ pc = "done" /\ err # ""
    /\ Last(reqLog).method = "PUT"
    /\ Len(retDbs) >= 1
    /\ idx < Len(databases)

\* C3: when a ReplicateHost run without failure follows a run without failure
\* in the same direction, the second run creates nothing: each of its PUTs
\* carries a revision, is for an id the store held after the first run and
\* advances that id's revision, no id is PUT twice, and every id of a listed
\* database is in the store, updated by this run unless registered as triggered.
C3_RerunUpdatesOnly ==
    (/\ IsRH /\ pc = "done" /\ err = ""
     /\ prevRun.op = "ReplicateHost" /\ prevRun.err = "" /\ prevRun.push = conf.Push)
        => LET puts == Puts(reqLog)
           IN /\ \A i \in 1..Len(puts) :
                    /\ puts[i].rev # NoRev
                    /\ puts[i].id \in prevRun.dom
                    /\ puts[i].revAfter > puts[i].rev
                    /\ \A j \in 1..Len(puts) : puts[j].id = puts[i].id => i = j
              /\ \A id \in RunIds :
                    /\ id \in prevRun.dom
                    /\ Present(store, id)
                    /\ (\E i \in 1..Len(puts) : puts[i].id = id) \/ RegisteredTriggered(id)

\* a second run in the same direction has updated a directive the first run made
C3_Witness ==
    /\ IsRH /\ pc = "done" /\ err = ""
    /\ prevRun.op = "ReplicateHost" /\ prevRun.err = "" /\ prevRun.push = conf.Push
    /\ Len(Puts(reqLog)) >= 1
    /\ store[conf.ID].rev >= 2

\* C4 as stated: any two different strings give different identifiers as
\* (source, target) and as (target, source).
C4_OriginalNeverSymmetric ==
    (hasId(conf) /\ hasId(altConf) /\ conf.Source # conf.Target) => conf.ID # altConf.ID

\* C4 amended: two different strings give the same identifier as
\* (source, target) and as (target, source) exactly when both are repetitions
\* of one common string (one of them may be empty), and different
\* identifiers otherwise.
C4_SymmetricOnlyForCommonPowers ==
    (hasId(conf) /\ hasId(altConf) /\ conf.Source # conf.Target)
        => ((conf.ID = altConf.ID) <=> CommonPower(conf.Source, conf.Target))

\* both identifiers of two different strings that are no repetitions of a
\* common string have been generated
C4_Witness ==
    /\ hasId(conf) /\ hasId(altConf)
    /\ conf.Source # conf.Target
    /\ conf.Source # EmptyStr /\ conf.Target # EmptyStr
    /\ ~CommonPower(conf.Source, conf.Target)
    /\ Len(conf.Target) = Len(conf.Source) + 1

\* C5: no registry holds a replicator whose id starts with the reserved
\* prefix, ReplicateHost submits nothing for a database whose name starts
\* with it, and DeleteAllReplicators requests no document whose id does.
C5_ReservedPrefixExcluded ==
    /\ \A x \in AllOf(replicators) \cup AllOf(retReg.reg) : x.ID # EmptyStr /\ x.ID[1] # "_"
    /\ IsRH => \A e \in Range(Puts(reqLog)) :
                  /\ e.id[1] # "_"
                  /\ DbOf(e) # EmptyStr /\ DbOf(e)[1] # "_"
    /\ IsDA => \A e \in Range(reqLog) :
                  e.method \in {"GET", "DELETE"} => e.id[1] # "_"

\* DeleteAllReplicators has deleted a directive and returned, the design
\* document still being in the store
C5_Witness ==
    /\ IsDA /\ pc = "done" /\ err = ""
    /\ DeletedIds # {}
    /\ Present(store, DesignDocId)

\* C6: once DeleteAllReplicators has returned without error, and nobody else
\* has written to the store since it started, a registry loaded now holds no
\* id of the registry it returned.
C6_DeletionComplete ==
    (IsDA /\ pc = "done" /\ err = "" /\ envCur = {})
        => IdsOf(retReg.reg) \cap IdsOf(Replicators(AllDocs(store))) = {}

\* DeleteAllReplicators has returned a registry of two directives without error
C6_Witness ==
    /\ IsDA /\ pc = "done" /\ err = "" /\ envCur = {}
    /\ Cardinality(IdsOf(retReg.reg)) >= 2

\* C7: every PUT of a ReplicateHost run is addressed by, and carries in its
\* body, the id of its own directive and the revision the registry holds for
\* that id: none when the registry has no such replicator, and otherwise the
\* revision of a replicator with that id that is not triggered.
C7_RevisionOfOwnId ==
    IsRH => \A e \in Range(Puts(reqLog)) :
               /\ e.body.ID = e.id /\ e.body.REV = e.rev
               /\ e.id = RunId(DbOf(e))
               /\ Registered(e.id) = {} => e.rev = NoRev
               /\ Registered(e.id) # {} =>
                     \E x \in Registered(e.id) :
                         x.ReplicationState # "triggered" /\ e.rev = x.REV

\* one run has updated the directive of one database and then created the
\* directive of the next
C7_Witness ==
    /\ IsRH
    /\ LET puts == Puts(reqLog)
       IN \E i, j \in 1..Len(puts) : i < j /\ puts[i].rev # NoRev /\ puts[j].rev = NoRev

\* C8: a ReplicateHost run none of whose calls failed returns no error and
\* the listed databases, in listing order, that are not reserved and whose
\* directive is not registered as triggered; these are the databases it
\* submitted, and it wrote nothing else.
C8_SuccessReturnsSubmitted ==
    (IsRH /\ pc = "done" /\ Failures(reqLog) = {})
        => LET puts == Puts(reqLog)
           IN /\ err = ""
              /\ retDbs = [i \in 1..Len(puts) |-> DbOf(puts[i])]
              /\ retDbs = SelectSeq(databases,
                                    LAMBDA d : d[1] # "_" /\ ~RegisteredTriggered(RunId(d)))
              /\ \A e \in Range(reqLog) : e.method \in {"PUT", "DELETE"} => e.method = "PUT"

\* a run in which every database that is not reserved was triggered has
\* returned: no error, nothing written
C8_Witness ==
    /\ IsRH /\ pc = "done" /\ err = ""
    /\ Failures(reqLog) = {}
    /\ \E id \in RunIds : RegisteredTriggered(id)
    /\ Puts(reqLog) = <<>>
    /\ retDbs = <<>>

\* C9 as stated: what DeleteAllReplicators returns with the error of a failed
\* deletion is the directives deleted until then, no more and no less.
C9_OriginalReturnsDeleted ==
    (IsDA /\ pc = "done" /\ err # "" /\ ~retReg.isNil)
        => IdsOf(retReg.reg) = DeletedIds

\* C9 amended: what DeleteAllReplicators returns with the error of a failed
\* deletion is the whole registry it loaded: the directives deleted until
\* then, and also the one whose deletion failed and those never tried.
C9_ReturnsWholeRegistry ==
    (IsDA /\ pc = "done" /\ err # "" /\ ~retReg.isNil)
        => /\ retReg.reg = replicators
           /\ DeletedIds \subseteq IdsOf(retReg.reg)
           /\ drId \in IdsOf(retReg.reg) \ DeletedIds
           /\ \A x \in Range(delQueue) : x.ID \in IdsOf(retReg.reg) \ DeletedIds

\* DeleteAllReplicators has failed after deleting a directive
C9_Witness ==
    /\ IsDA /\ pc = "done" /\ err # "" /\ ~retReg.isNil
    /\ DeletedIds # {}

\* C10: DeleteAllReplicators lists the documents once, as its first request;
\* every later request is the fetch or the delete of one registered
\* directive, a delete following the fetch of the same id; a failed request
\* is the last one, its error is returned, and with it the registry loaded
\* (nothing when the listing itself failed).
C10_DeleteAllStopsAtFirstFailure ==
    IsDA =>
        /\ \A k \in 1..Len(reqLog) :
              /\ (reqLog[k].method = "LIST_DOCS") <=> (k = 1)
              /\ k > 1 => /\ reqLog[k].method \in {"GET", "DELETE"}
                          /\ reqLog[k].id \in IdsOf(replicators)
              /\ reqLog[k].method = "DELETE" =>
                    reqLog[k - 1].method = "GET" /\ reqLog[k - 1].id = reqLog[k].id
              /\ reqLog[k].err # "" =>
                    /\ k = Len(reqLog)
                    /\ pc = "done"
                    /\ err = reqLog[k].err
                    /\ retReg = IF k = 1 THEN [isNil |-> TRUE, reg |-> EmptyReplicators]
                                ELSE [isNil |-> FALSE, reg |-> replicators]
        /\ (pc = "done" /\ err = "") => Failures(reqLog) = {}

\* DeleteAllReplicators has failed with a directive left that it never requested
C10_Witness ==
    /\ IsDA /\ pc = "done" /\ err # ""
    /\ Len(reqLog) > 1
    /\ Len(delQueue) >= 2

IsDR == op = "DeleteReplicator"

\* C11: in DeleteReplicator, alone or called by DeleteAllReplicators, a
\* fetch is addressed by id only; a delete follows a successful fetch of the
\* same id and carries the revision that fetch returned; a failed fetch is
\* the last request, and its error is returned.
C11_DeleteUsesFetchedRevision ==
    (IsDR \/ IsDA) =>
        /\ IsDR /\ Len(reqLog) >= 1 =>
              /\ reqLog[1].method = "GET" /\ reqLog[1].id = drId
              /\ Len(reqLog) <= 2
        /\ \A k \in 1..Len(reqLog) :
              /\ reqLog[k].method = "GET" => reqLog[k].rev = NoRev
              /\ reqLog[k].method = "DELETE" =>
                    /\ k > 1
                    /\ reqLog[k - 1].method = "GET"
                    /\ reqLog[k - 1].err = ""
                    /\ reqLog[k - 1].id = reqLog[k].id
                    /\ reqLog[k].rev = reqLog[k - 1].revAfter
                    /\ reqLog[k].rev # NoRev
              /\ (reqLog[k].method = "GET" /\ reqLog[k].err # "") =>
                    /\ k = Len(reqLog)
                    /\ pc = "done"
                    /\ err = reqLog[k].err

\* a directive was deleted at a revision newer than the one the registry of
\* the pass holds for it
C11_Witness ==
    /\ IsDA
    /\ \E k \in 1..Len(reqLog) :
          /\ reqLog[k].method = "DELETE" /\ reqLog[k].err = ""
          /\ \E x \in AllOf(replicators) : x.ID = reqLog[k].id /\ x.REV # reqLog[k].rev

\* C12: ReplicateHost lists the databases once, as its first request, on
\* the local host when pushing and on the remote host otherwise, and works
\* on that listing; the registry and the session are read on the local host;
\* when pushing no request goes to the remote host, and otherwise the
\* listing of databases is the only one that does.
C12_MasterHostByDirection ==
    IsRH =>
        /\ \A k \in 1..Len(reqLog) :
              /\ (reqLog[k].method = "LIST_DBS") <=> (k = 1)
              /\ reqLog[k].method = "LIST_DBS" =>
                    reqLog[k].host = IF conf.Push THEN "local" ELSE "remote"
              /\ reqLog[k].method # "LIST_DBS" => reqLog[k].host = "local"
              /\ conf.Push => reqLog[k].host = "local"
        /\ (Len(reqLog) >= 1 /\ reqLog[1].err = "") =>
              databases = IF conf.Push THEN LocalDbs ELSE RemoteDbs
        /\ \A e \in Range(Puts(reqLog)) :
              \E i \in 1..Len(IF conf.Push THEN LocalDbs ELSE RemoteDbs) :
                  DbOf(e) = (IF conf.Push THEN LocalDbs ELSE RemoteDbs)[i]

\* a run that does not push has submitted a directive for a database that
\* the remote host lists, having read registry and session on the local host
C12_Witness ==
    /\ IsRH /\ pc = "done" /\ err = ""
    /\ ~conf.Push
    /\ databases = RemoteDbs
    /\ Len(Puts(reqLog)) >= 1
    /\ \E k \in 1..Len(reqLog) : reqLog[k].method = "GET_SESSION" /\ reqLog[k].host = "local"

\* C13: every directive ReplicateHost submits is for a database of the
\* listing that is not reserved, later in the listing than the database of
\* the submission before; its source is the database and its target the
\* remote locator of the database when pushing, and the reverse otherwise;
\* its id, in the body and in the address, is the identifier of exactly this
\* source and target; its user context is that of the local session.
C13_DirectiveConsistent ==
    IsRH =>
        LET puts == Puts(reqLog)
            name(i) == IF conf.Push THEN puts[i].body.Source ELSE puts[i].body.Target
            locator(i) == IF conf.Push THEN puts[i].body.Target ELSE puts[i].body.Source
        IN /\ \A i \in 1..Len(puts) :
                 /\ locator(i) = url(name(i))
                 /\ name(i)[1] # "_"
                 /\ puts[i].body.ID = HexDigest(puts[i].body.Source \o puts[i].body.Target)
                 /\ puts[i].id = puts[i].body.ID
                 /\ puts[i].body.UserCtx = LocalUserCtx
                 /\ puts[i].host = "local"
           /\ \E f \in [1..Len(puts) -> 1..Len(databases)] :
                 /\ \A i \in 1..Len(puts) : databases[f[i]] = name(i) /\ f[i] <= idx
                 /\ \A i, j \in 1..Len(puts) : i < j => f[i] < f[j]
           /\ \A i, j \in 1..Len(puts) : puts[i].id = puts[j].id => i = j

\* a pushing run has submitted the directives of three databases
C13_Witness ==
    /\ IsRH /\ pc = "done" /\ err = ""
    /\ conf.Push
    /\ Len(Puts(reqLog)) = 3

SetupCalls == {"LIST_DBS", "LIST_DOCS", "GET_SESSION"}

\* C14: in ReplicateHost the listing of databases, the load of the registry
\* and the read of the session are each requested at most once; when one of
\* them fails it is the last request of the run, which has returned its
\* error and an empty list and has submitted nothing.
C14_SetupFailureReturnsEmpty ==
    IsRH =>
        \A k \in 1..Len(reqLog) :
            reqLog[k].method \in SetupCalls =>
                /\ \A l \in 1..Len(reqLog) : reqLog[l].method = reqLog[k].method => l = k
                /\ reqLog[k].err # "" =>
                      /\ k = Len(reqLog)
                      /\ pc = "done"
                      /\ err = reqLog[k].err
                      /\ retDbs = <<>>
                      /\ Puts(reqLog) = <<>>

\* the read of the session failed after the listing and the registry load
C14_Witness ==
    /\ IsRH /\ pc = "done" /\ err # ""
    /\ Len(reqLog) = 3
    /\ reqLog[3].method = "GET_SESSION" /\ reqLog[3].err # ""
    /\ AllOf(replicators) # {}

\* the client has just issued a PUT
PutIssued == IsRH /\ Len(reqLog') = Len(reqLog) + 1 /\ Last(reqLog').method = "PUT"

\* C15: ReplicateHost never issues a PUT for a directive that the store
\* holds as triggered at the moment of the PUT.
C15_NeverPutsTriggered ==
    [][PutIssued => store[Last(reqLog').id].state # "triggered"]_vars

\* the document the store holds for id is not the one the registry of the
\* run holds: created since the load, or at another revision
ChangedSinceLoad(id) ==
    \/ Present(store, id) /\ Registered(id) = {}
    \/ \E x \in Registered(id) : x.REV # store[id].rev

\* C16: when ReplicateHost issues the PUT for a directive that was created
\* or modified in the store after the registry of the run was loaded, the
\* store is left as it is, the PUT fails, and the run returns at once with
\* that error and the databases submitted successfully before.
C16_StaleWriteRejected ==
    [][(PutIssued /\ ChangedSinceLoad(Last(reqLog').id))
          => /\ store' = store
             /\ Last(reqLog').err \in {"conflict", "transport"}
             /\ pc' = "done"
             /\ err' = Last(reqLog').err
             /\ retDbs' = replicatedDbs
             /\ Len(Puts(reqLog)) = Len(replicatedDbs)]_vars

\* a run has stopped on the conflict of a directive changed since the
\* registry load, after submitting another database successfully
C16_Witness ==
    /\ IsRH /\ pc = "done" /\ err = "conflict"
    /\ Last(reqLog).method = "PUT"
    /\ ChangedSinceLoad(Last(reqLog).id)
    /\ Registered(Last(reqLog).id) # {}
    /\ Len(retDbs) >= 1
    /\ idx < Len(databases)

\* C17: a step of ReplicateHost changes no stored document other than the
\* directives of the run's own databases; the run sends no DELETE, sends its
\* PUTs to the local store only, to _replicator/{generated id}, and asks the
\* remote host for nothing but its database list.
C17_WritesOnlyOwnDirectives ==
    [][(IsRH /\ ClientStep)
          => /\ \A id \in IdUniverse \ RunIds : store'[id] = store[id]
             /\ \A i \in 1..Len(reqLog') :
                   LET rq == reqLog'[i]
                   IN /\ rq.method # "DELETE"
                      /\ rq.method = "PUT"
                            => rq.host = "local" /\ rq.id \in RunIds
                      /\ rq.host = "remote" => rq.method = "LIST_DBS"]_vars

\* a pull run has finished its submissions without error while a directive
\* outside the run is stored
C17_Witness ==
    /\ IsRH /\ pc = "done" /\ err = "" /\ ~conf.Push
    /\ Len(Puts(reqLog)) >= 1
    /\ \E i \in 1..Len(reqLog) : reqLog[i].host = "remote"
    /\ Present(store, ExternalId)
    /\ ExternalId \notin RunIds

\* the rows of a listing that the registry retains
Retained(rows) ==
    {rows[i] : i \in {j \in 1..Len(rows) :
                        ~(Len(rows[j].Id) > 0 /\ rows[j].Id[1] = ignoredPrefix)}}

\* reg answers for every retained row with the row's own record, and with
\* not found for every other identifier
Faithful(rows, reg) ==
    /\ \A row \in Retained(rows) :
          findById(reg, row.Id) = {[replicator |-> row.Replicator, found |-> TRUE]}
    /\ \A id \in IdUniverse \ {row.Id : row \in Retained(rows)} :
          findById(reg, id) = {[replicator |-> NoReplicator, found |-> FALSE]}

\* C18: the registry built from the listing of the store answers findById,
\* for every row whose identifier does not start with '_', with found and
\* that row's own record, whatever replicationId the rows carry, and with
\* not found for every identifier no retained row carries; a registry that
\* an operation has loaded holds one record per identifier.
C18_RegistryLosesNothing ==
    /\ Faithful(AllDocs(store), Replicators(AllDocs(store)))
    /\ \A x \in AllOf(replicators) :
          findById(replicators, x.ID) = {[replicator |-> x, found |-> TRUE]}
    /\ \A id \in IdUniverse \ IdsOf(replicators) :
          findById(replicators, id) = {[replicator |-> NoReplicator, found |-> FALSE]}

\* an operation has loaded the registry of a store in which two directives
\* share a replicationId, one has none, and the design document is listed
C18_Witness ==
    /\ replicators = Replicators(AllDocs(store))
    /\ Len(replicators["r1"]) >= 2
    /\ Len(replicators[""]) >= 1
    /\ Present(store, DesignDocId)
    /\ DesignDocId \notin IdsOf(replicators)

====
